---- MODULE Spec2Model ----
(***************************************************************************)
(* Model of src/ingest.py: the Azure SQL ingestion script.                 *)
(*                                                                         *)
(* One run of main() is a straight line of I/O calls: build_engine()       *)
(* probes the ODBC drivers in order, a version query checks the session,   *)
(* each of the two CSV files is (if present) read, its column names are    *)
(* lowercased and it is written over its destination table, and a final    *)
(* block counts the rows of both tables.  Every call into the database,    *)
(* the file system or pandas either returns or raises; which of the two    *)
(* happens is the environment's choice, except where the outcome is        *)
(* decided by the data (UTF-8 decoding, duplicate column names, a count    *)
(* on an absent table).  The database outlives the process, so the model   *)
(* lets main() be run again and again over the same tables.                *)
(***************************************************************************)
EXTENDS Integers, Sequences, FiniteSets, TLC

(* ------------------------------ bounds --------------------------------- *)

\* Most data rows a CSV file of the model holds.
MaxRows == 2

(* --------------------------- program constants -------------------------- *)

\* build_engine's candidates, in the order of the list.
candidates == <<"ODBC Driver 18 for SQL Server", "ODBC Driver 17 for SQL Server">>

\* The two sources of main, in program order, by destination table name:
\* BRAND_CSV -> dbo.brand, SPEND_CSV -> dbo.daily_spend.
Sources == <<"brand", "daily_spend">>

\* The tuple the sanity-count loop walks.
CountTables == <<"brand", "daily_spend">>

(* ------------------------------ environment ----------------------------- *)

\* Descriptions of the errors a driver attempt can raise.
Errors == {"IM002 driver not found", "08001 login timeout"}

None == "None"
\* A destination table that does not exist, and main() with no exception.
NoTable == [exists |-> FALSE, columns |-> <<>>, rows |-> <<>>]
NoExc == [kind |-> "None", msg |-> "None"]

\* Header rows of the CSV files of the model: mixed case, already lowercase,
\* two names that differ only by case, and one name repeated.
Headers == { <<"ID", "Name">>, <<"id", "name">>, <<"ID", "id">>, <<"ID", "ID">> }

\* Data rows as they lie in the file (bytes).  The second one holds the byte
\* E9, which is not valid UTF-8 and is e-acute in Latin-1.
RowBytes == {"1,Acme", "2,Caf<E9>"}

RECURSIVE SeqsUpTo(_, _)
SeqsUpTo(S, n) ==
    IF n = 0 THEN { <<>> }
    ELSE LET shorter == SeqsUpTo(S, n - 1)
         IN  shorter \cup { Append(q, x) : q \in { r \in shorter : Len(r) = n - 1 }, x \in S }

\* A CSV file on disk: its header row and its data rows.
Files == [header : Headers, rows : SeqsUpTo(RowBytes, MaxRows)]

NoFile == [header |-> <<>>, rows |-> <<>>]
NoFrame == [columns |-> <<>>, rows |-> <<>>]

(* ------------------------- text conversions ----------------------------- *)

\* bytes.decode("utf-8") succeeds on a row iff it holds no invalid byte.
Utf8Valid(row) == row # "2,Caf<E9>"

\* bytes.decode("latin-1") maps every byte to one character.
Latin1Text(row) == IF row = "2,Caf<E9>" THEN "2,Cafe-acute" ELSE row

\* str.lower on the column names of the model.
lower(c) ==
    CASE c = "ID"     -> "id"
      [] c = "Name"   -> "name"
      [] c = "ID.1"   -> "id.1"
      [] c = "Name.1" -> "name.1"
      [] OTHER        -> c

Range(q) == { q[i] : i \in 1..Len(q) }

HasDuplicates(q) == \E i, j \in 1..Len(q) : i # j /\ q[i] = q[j]


\* pandas.read_csv renames a header name that already occurred: the k-th
\* repetition of X becomes X.k (ID, ID -> ID, ID.1).
Occurrences(h, i) == Cardinality({ j \in 1..(i - 1) : h[j] = h[i] })

MangleDupes(h) ==
    [ i \in 1..Len(h) |->
        IF Occurrences(h, i) = 0 THEN h[i]
        ELSE h[i] \o "." \o ToString(Occurrences(h, i)) ]

\* What pd.read_csv(path, dtype=str, keep_default_na=False) decodes.
FileUtf8Valid(f) == \A i \in 1..Len(f.rows) : Utf8Valid(f.rows[i])

\* The snapshot read_csv returns: every data row of the file, as text, in
\* file order; `latin1` tells the encoding the bytes were decoded under.
ParseCsv(f, latin1) ==
    [ columns |-> MangleDupes(f.header),
      rows    |-> [ i \in 1..Len(f.rows) |->
                      IF latin1 THEN Latin1Text(f.rows[i]) ELSE f.rows[i] ] ]

\* Mutant of LowerColumns: the names are written as read.
LowerColumns_keeps_case(frame) == frame

\* brand_df.columns = [c.lower() for c in brand_df.columns]
LowerColumns(frame) ==
    [ frame EXCEPT !.columns = [ i \in 1..Len(frame.columns) |-> lower(frame.columns[i]) ] ]

\* Mutant of ReplaceTable: if_exists="append", the rows are added to the table
\* that is there.
ReplaceTable_appends(old, frame) ==
    [ exists  |-> TRUE,
      columns |-> frame.columns,
      rows    |-> IF old.exists THEN old.rows \o frame.rows ELSE frame.rows ]

\* DataFrame.to_sql(name, eng, schema="dbo", if_exists="replace", index=False):
\* the table after the call returns.  The old table is dropped; the new one
\* has the frame's columns and rows and no index column.
ReplaceTable(old, frame) ==
    [ exists |-> TRUE, columns |-> frame.columns, rows |-> frame.rows ]

Prefixes(q) == { SubSeq(q, 1, n) : n \in 0..(Len(q) - 1) }

\* The table a to_sql call that raises may leave behind: the old table (the
\* error came before the drop, or the transaction rolled back), no table (after
\* the drop), or a new table with only some of the rows.  CREATE TABLE
\* rejects a column list with a repeated name, so no new table exists then.
AfterFailedWrite(old, frame) ==
    {old, NoTable}
      \cup (IF HasDuplicates(frame.columns) THEN {}
            ELSE { [exists |-> TRUE, columns |-> frame.columns, rows |-> p] :
                     p \in Prefixes(frame.rows) })

\* SELECT COUNT(*) FROM dbo.t
RowCount(tbl) == Len(tbl.rows)

\* What if_exists="replace" drops: the table that is there, if any.
Dropped(old) == [exists |-> old.exists, count |-> RowCount(old)]
Nothing == [exists |-> FALSE, count |-> 0]

(* -------------------------------- state --------------------------------- *)

VARIABLES
    pc,         \* where the run of main() stands
    drv,        \* build_engine: index of the candidate of the current loop turn
    last_err,   \* build_engine: last_err
    pending,    \* the exception in flight (None: none)
    eng,        \* main: the driver of the engine build_engine returned
    conns,      \* the connections held open (by the `with` that opened them)
    log,        \* the lines printed so far by this run
    exc,        \* the exception that ended main() (NoExc: none)
    attempts,   \* how often each candidate was tried in this run
    src,        \* main: index in Sources of the source being ingested
    file,       \* the CSV file found at the path of the source in hand
    df,         \* brand_df / spend_df, the snapshot of the source in hand
                \* (both NoFile / NoFrame outside the source's `if` block and
                \* once an exception has unwound main)
    reads,      \* per source: the encodings of the read_csv calls made
    writes,     \* per source: the number of to_sql calls made
    tables,     \* the database: dbo.brand and dbo.daily_spend
    replaced,   \* what the to_sql call that has just returned dropped: whether
                \* a table was there and how many rows it held (Nothing when
                \* the last statement was no such call)
    t,          \* sanity counts: index in CountTables
    counted     \* sanity counts: the tables a count query was sent for

vars == <<pc, drv, last_err, pending, eng, conns, log, exc, attempts, src, file,
          df, reads, writes, tables, replaced, t, counted>>

buildVars  == <<drv, last_err, eng, attempts>>
ingestVars == <<src, file, df, reads, writes>>
verifyVars == <<t, counted>>

Line(tag, msg, on, val) == [tag |-> tag, msg |-> msg, on |-> on, val |-> val]

Say(l) == log' = Append(log, l)

\* An exception leaves main(): the process ends with a traceback.
Abort(kind, msg) ==
    /\ exc' = [kind |-> kind, msg |-> msg]
    /\ pc' = "aborted"

Init ==
    /\ pc = "main"
    /\ drv = 1
    /\ last_err = None
    /\ pending = None
    /\ eng = None
    /\ conns = {}
    /\ log = <<>>
    /\ exc = NoExc
    /\ attempts = [i \in 1..Len(candidates) |-> 0]
    /\ src = 1
    /\ file = NoFile
    /\ df = NoFrame
    /\ reads = [i \in 1..Len(Sources) |-> <<>>]
    /\ writes = [i \in 1..Len(Sources) |-> 0]
    /\ tables = [n \in Range(Sources) |-> NoTable]
    /\ replaced = Nothing
    /\ t = 1
    /\ counted = <<>>

(* ----------------------------- build_engine ----------------------------- *)

\* main: print("[INFO] Connecting to Azure SQL..."); eng = build_engine()
Start ==
    /\ pc = "main"
    /\ Say(Line("INFO", "Connecting to Azure SQL", None, None))
    /\ pc' = "loop"
    /\ UNCHANGED <<buildVars, pending, conns, exc, ingestVars, tables, replaced, verifyVars>>

\* for driver in candidates: try: print("[INFO] Trying ODBC driver ...")
TryDriver ==
    /\ pc = "loop"
    /\ drv <= Len(candidates)
    /\ Say(Line("INFO", "Trying ODBC driver", candidates[drv], None))
    /\ attempts' = [attempts EXCEPT ![drv] = @ + 1]
    /\ pc' = "create"
    /\ UNCHANGED <<drv, last_err, eng, pending, conns, exc, ingestVars, tables, replaced, verifyVars>>

\* URL.create(...) and create_engine(...): no connection is opened yet.
CreateEngine ==
    /\ pc = "create"
    /\ \/ /\ pc' = "connect"
          /\ UNCHANGED pending
       \/ \E e \in Errors :
          /\ pending' = e
          /\ pc' = "except"
    /\ UNCHANGED <<buildVars, conns, log, exc, ingestVars, tables, replaced, verifyVars>>

\* with eng.connect() as conn:
ProbeConnect ==
    /\ pc = "connect"
    /\ \/ /\ conns' = conns \cup {"probe"}
          /\ pc' = "probe"
          /\ UNCHANGED pending
       \/ \E e \in Errors :
          /\ pending' = e
          /\ pc' = "except"
          /\ UNCHANGED conns
    /\ UNCHANGED <<buildVars, log, exc, ingestVars, tables, replaced, verifyVars>>

\* conn.exec_driver_sql("SELECT 1")
ProbeQuery ==
    /\ pc = "probe"
    /\ \/ UNCHANGED pending
       \/ \E e \in Errors : pending' = e
    /\ pc' = "probe_exit"
    /\ UNCHANGED <<buildVars, conns, log, exc, ingestVars, tables, replaced, verifyVars>>

\* Leaving the `with` block, normally or by the exception: conn is closed.
ProbeExit ==
    /\ pc = "probe_exit"
    /\ conns' = conns \ {"probe"}
    /\ pc' = IF pending = None THEN "return" ELSE "except"
    /\ UNCHANGED <<buildVars, pending, log, exc, ingestVars, tables, replaced, verifyVars>>

\* Mutant of UseDriver: the loop goes on after a probe that succeeded, and the
\* engine of the last candidate that works is the one returned.
UseDriver_keeps_trying ==
    /\ pc = "return"
    /\ Say(Line("INFO", "Using driver", candidates[drv], None))
    /\ eng' = candidates[drv]
    /\ IF drv < Len(candidates)
         THEN pc' = "loop" /\ drv' = drv + 1
         ELSE pc' = "version_connect" /\ UNCHANGED drv
    /\ UNCHANGED <<last_err, attempts, pending, conns, exc, ingestVars, tables, replaced, verifyVars>>

\* print("[INFO] Using driver ..."); return eng
UseDriver ==
    /\ pc = "return"
    /\ Say(Line("INFO", "Using driver", candidates[drv], None))
    /\ eng' = candidates[drv]
    /\ pc' = "version_connect"
    /\ UNCHANGED <<drv, last_err, attempts, pending, conns, exc, ingestVars, tables, replaced, verifyVars>>

\* Mutant of DriverFailed: last_err keeps the first error instead of the last.
DriverFailed_keeps_first_error ==
    /\ pc = "except"
    /\ last_err' = IF last_err = None THEN pending ELSE last_err
    /\ Say(Line("WARN", "Driver failed", candidates[drv], pending))
    /\ pending' = None
    /\ drv' = drv + 1
    /\ pc' = "loop"
    /\ UNCHANGED <<eng, attempts, conns, exc, ingestVars, tables, replaced, verifyVars>>

\* except Exception as e: last_err = e; print("[WARN] Driver failed ...")
DriverFailed ==
    /\ pc = "except"
    /\ last_err' = pending
    /\ Say(Line("WARN", "Driver failed", candidates[drv], pending))
    /\ pending' = None
    /\ drv' = drv + 1
    /\ pc' = "loop"
    /\ UNCHANGED <<eng, attempts, conns, exc, ingestVars, tables, replaced, verifyVars>>

\* raise RuntimeError(f"No usable ODBC driver found. Last error: {last_err}")
NoUsableDriver ==
    /\ pc = "loop"
    /\ drv > Len(candidates)
    /\ Abort("RuntimeError", last_err)
    /\ UNCHANGED <<buildVars, pending, conns, log, ingestVars, tables, replaced, verifyVars>>

(* --------------------------------- main --------------------------------- *)

\* with eng.connect() as conn:                      (the smoke test)
VersionConnect ==
    /\ pc = "version_connect"
    /\ \/ /\ conns' = conns \cup {"version"}
          /\ pc' = "version"
          /\ UNCHANGED exc
       \/ /\ Abort("OperationalError", "smoke-test connect")
          /\ UNCHANGED conns
    /\ UNCHANGED <<buildVars, pending, log, ingestVars, tables, replaced, verifyVars>>

\* ver = conn.execute(text("SELECT @@VERSION")).scalar(); print("[OK] Connected ...")
VersionQuery ==
    /\ pc = "version"
    /\ \/ /\ Say(Line("OK", "Connected to SQL Server", None, None))
          /\ UNCHANGED pending
       \/ /\ pending' = "SELECT @@VERSION failed"
          /\ UNCHANGED log
    /\ pc' = "version_exit"
    /\ UNCHANGED <<buildVars, conns, exc, ingestVars, tables, replaced, verifyVars>>

\* Mutant of VersionExit: the smoke test is best-effort, a failed version query
\* is dropped and the run goes on.
VersionExit_best_effort ==
    /\ pc = "version_exit"
    /\ conns' = conns \ {"version"}
    /\ pc' = "ensure"
    /\ pending' = None
    /\ UNCHANGED <<buildVars, log, exc, ingestVars, tables, replaced, verifyVars>>

\* Mutant of VersionExit: the connection is closed after the query only when
\* the query returned (a close() call after the statement, no `with`).
VersionExit_leaks_on_error ==
    /\ pc = "version_exit"
    /\ IF pending = None
         THEN /\ conns' = conns \ {"version"}
              /\ pc' = "ensure"
              /\ UNCHANGED <<exc, pending>>
         ELSE /\ Abort("DBAPIError", pending)
              /\ pending' = None
              /\ UNCHANGED conns
    /\ UNCHANGED <<buildVars, log, ingestVars, tables, replaced, verifyVars>>

\* Leaving the smoke test's `with` block: conn is closed, an exception goes on.
VersionExit ==
    /\ pc = "version_exit"
    /\ conns' = conns \ {"version"}
    /\ IF pending = None
         THEN /\ pc' = "ensure"
              /\ UNCHANGED <<exc, pending>>
         ELSE /\ Abort("DBAPIError", pending)
              /\ pending' = None
    /\ UNCHANGED <<buildVars, log, ingestVars, tables, replaced, verifyVars>>

\* Control after the `if ensure_exists(...)` block of source i.
AfterSource(i) == IF i < Len(Sources) THEN "ensure" ELSE "verify_connect"

\* if ensure_exists(BRAND_CSV): / if ensure_exists(SPEND_CSV):
\* the path holds a file (any file) or nothing.
EnsureExists ==
    /\ pc = "ensure"
    /\ \/ \E f \in Files :
          /\ file' = f
          /\ Say(Line("INFO", "Reading CSV", Sources[src], None))
          /\ pc' = "read"
          /\ UNCHANGED src
       \/ /\ Say(Line("WARN", "File not found", Sources[src], None))
          /\ pc' = AfterSource(src)
          /\ src' = IF src < Len(Sources) THEN src + 1 ELSE src
          /\ file' = NoFile
    /\ df' = NoFrame
    /\ replaced' = Nothing
    /\ UNCHANGED <<buildVars, pending, conns, exc, reads, writes, tables, verifyVars>>

\* Mutant of ReadUtf8: the handler catches every exception, so a parser or I/O
\* error of the first attempt is retried under Latin-1 too.
ReadUtf8_retries_any_error ==
    /\ pc = "read"
    /\ reads' = [reads EXCEPT ![src] = Append(@, "utf-8")]
    /\ \/ /\ FileUtf8Valid(file)
          /\ df' = ParseCsv(file, FALSE)
          /\ pc' = "lower"
       \/ /\ pc' = "read_latin1"
          /\ UNCHANGED df
    /\ UNCHANGED <<buildVars, pending, conns, log, exc, src, file, writes, tables, replaced, verifyVars>>

\* read_csv_any: try: return pd.read_csv(path, dtype=str, keep_default_na=False)
\* The decode fails iff the file holds a byte that is not UTF-8; any other
\* error (I/O, parser) is the environment's choice and is not caught.
ReadUtf8 ==
    /\ pc = "read"
    /\ reads' = [reads EXCEPT ![src] = Append(@, "utf-8")]
    /\ \/ /\ FileUtf8Valid(file)
          /\ df' = ParseCsv(file, FALSE)
          /\ pc' = "lower"
          /\ UNCHANGED <<exc, file>>
       \/ /\ ~FileUtf8Valid(file)
          /\ pc' = "read_latin1"
          /\ UNCHANGED <<df, exc, file>>
       \/ /\ Abort("ParserError", "read_csv")
          /\ file' = NoFile
          /\ UNCHANGED df
    /\ UNCHANGED <<buildVars, pending, conns, log, src, writes, tables, replaced, verifyVars>>

\* except UnicodeDecodeError: return pd.read_csv(..., encoding="latin-1")
ReadLatin1 ==
    /\ pc = "read_latin1"
    /\ reads' = [reads EXCEPT ![src] = Append(@, "latin-1")]
    /\ \/ /\ df' = ParseCsv(file, TRUE)
          /\ pc' = "lower"
          /\ UNCHANGED <<exc, file>>
       \/ /\ Abort("ParserError", "read_csv latin-1")
          /\ file' = NoFile
          /\ UNCHANGED df
    /\ UNCHANGED <<buildVars, pending, conns, log, src, writes, tables, replaced, verifyVars>>

\* df.columns = [c.lower() for c in df.columns]; print("[INFO] Writing dbo.<t> ...")
Lowercase ==
    /\ pc = "lower"
    /\ df' = LowerColumns(df)
    /\ Say(Line("INFO", "Writing", Sources[src], None))
    /\ pc' = "write"
    /\ UNCHANGED <<buildVars, pending, conns, exc, src, file, reads, writes, tables, replaced, verifyVars>>

\* Mutant of ToSql: an error of to_sql is caught and the run goes on.
ToSql_swallows_error ==
    /\ pc = "write"
    /\ writes' = [writes EXCEPT ![src] = @ + 1]
    /\ \/ /\ ~HasDuplicates(df.columns)
          /\ tables' = [tables EXCEPT ![Sources[src]] = ReplaceTable(@, df)]
       \/ \E left \in AfterFailedWrite(tables[Sources[src]], df) :
          /\ tables' = [tables EXCEPT ![Sources[src]] = left]
    /\ pc' = AfterSource(src)
    /\ src' = IF src < Len(Sources) THEN src + 1 ELSE src
    /\ replaced' = Dropped(tables[Sources[src]])
    /\ UNCHANGED <<buildVars, pending, conns, log, exc, df, file, reads, verifyVars>>

\* df.to_sql(<t>, eng, schema="dbo", if_exists="replace", index=False)
\* A frame with a repeated column name cannot be written; otherwise the
\* call returns or raises as the database decides.
ToSql ==
    /\ pc = "write"
    /\ writes' = [writes EXCEPT ![src] = @ + 1]
    /\ \/ /\ ~HasDuplicates(df.columns)
          /\ tables' = [tables EXCEPT ![Sources[src]] = ReplaceTable(@, df)]
          /\ replaced' = Dropped(tables[Sources[src]])
          /\ pc' = AfterSource(src)
          /\ src' = IF src < Len(Sources) THEN src + 1 ELSE src
          /\ UNCHANGED <<exc, df, file>>
       \/ \E left \in AfterFailedWrite(tables[Sources[src]], df) :
          /\ tables' = [tables EXCEPT ![Sources[src]] = left]
          /\ Abort("DBAPIError", "to_sql")
          /\ df' = NoFrame
          /\ file' = NoFile
          /\ UNCHANGED <<src, replaced>>
    /\ UNCHANGED <<buildVars, pending, conns, log, reads, verifyVars>>

\* with eng.connect() as conn:                      (the sanity counts)
VerifyConnect ==
    /\ pc = "verify_connect"
    /\ \/ /\ conns' = conns \cup {"verify"}
          /\ pc' = "count"
          /\ UNCHANGED exc
       \/ /\ Abort("OperationalError", "sanity-count connect")
          /\ UNCHANGED conns
    /\ df' = NoFrame
    /\ file' = NoFile
    /\ replaced' = Nothing
    /\ UNCHANGED <<buildVars, pending, log, src, reads, writes, tables, verifyVars>>

\* for t in ("brand", "daily_spend"): try: cnt = ...; print("[OK] ...")
\*                                    except Exception: pass
\* The query fails on an absent table, and may fail on a present one.
CountQuery ==
    /\ pc = "count"
    /\ t <= Len(CountTables)
    /\ counted' = Append(counted, CountTables[t])
    /\ \/ /\ tables[CountTables[t]] # NoTable
          /\ Say(Line("OK", "rows", CountTables[t], ToString(RowCount(tables[CountTables[t]]))))
       \/ UNCHANGED log
    /\ t' = t + 1
    /\ UNCHANGED <<pc, buildVars, pending, conns, exc, ingestVars, tables, replaced>>

\* Leaving the sanity counts' `with` block: conn is closed.
VerifyExit ==
    /\ pc = "count"
    /\ t > Len(CountTables)
    /\ conns' = conns \ {"verify"}
    /\ pc' = "finish"
    /\ UNCHANGED <<buildVars, pending, log, exc, ingestVars, tables, replaced, verifyVars>>

\* print("[DONE] Ingestion complete.")
Done ==
    /\ pc = "finish"
    /\ Say(Line("DONE", "Ingestion complete", None, None))
    /\ pc' = "done"
    /\ UNCHANGED <<buildVars, pending, conns, exc, ingestVars, tables, replaced, verifyVars>>

\* The process has ended; the script is run again.  Everything but the
\* database starts afresh.
Terminated == pc \in {"done", "aborted"}

Rerun ==
    /\ Terminated
    /\ pc' = "main"
    /\ drv' = 1
    /\ last_err' = None
    /\ pending' = None
    /\ eng' = None
    /\ conns' = {}
    /\ log' = <<>>
    /\ exc' = NoExc
    /\ attempts' = [i \in 1..Len(candidates) |-> 0]
    /\ src' = 1
    /\ file' = NoFile
    /\ df' = NoFrame
    /\ reads' = [i \in 1..Len(Sources) |-> <<>>]
    /\ writes' = [i \in 1..Len(Sources) |-> 0]
    /\ t' = 1
    /\ counted' = <<>>
    /\ replaced' = Nothing
    /\ UNCHANGED tables

Next ==
    \/ Start
    \/ TryDriver
    \/ CreateEngine
    \/ ProbeConnect
    \/ ProbeQuery
    \/ ProbeExit
    \/ UseDriver
    \/ DriverFailed
    \/ NoUsableDriver
    \/ VersionConnect
    \/ VersionQuery
    \/ VersionExit
    \/ EnsureExists
    \/ ReadUtf8
    \/ ReadLatin1
    \/ Lowercase
    \/ ToSql
    \/ VerifyConnect
    \/ CountQuery
    \/ VerifyExit
    \/ Done
    \/ Rerun

Spec == Init /\ [][Next]_vars

(* ------------------------- vocabulary of the claims --------------------- *)

Drivers == 1..Len(candidates)
SourceIds == 1..Len(Sources)

LinesOf(tag, msg, on) ==
    { i \in DOMAIN log : log[i].tag = tag /\ log[i].msg = msg /\ log[i].on = on }

WarnLines(j) == LinesOf("WARN", "Driver failed", candidates[j])
TryLines(j) == LinesOf("INFO", "Trying ODBC driver", candidates[j])
Missing(i) == LinesOf("WARN", "File not found", Sources[i]) # {}
DonePrinted == LinesOf("DONE", "Ingestion complete", None) # {}
Connected == LinesOf("OK", "Connected to SQL Server", None) # {}

\* Nothing of source i has happened in this run: no existence check, no
\* read_csv call, no to_sql call.
Untouched(i) ==
    /\ reads[i] = <<>>
    /\ writes[i] = 0
    /\ \A k \in DOMAIN log : log[k].on # Sources[i] \/ log[k].tag = "OK"

BuildPcs == {"main", "loop", "create", "connect", "probe", "probe_exit", "return", "except"}
SmokePcs == {"version_connect", "version", "version_exit"}

\* The text of the file's data rows, as the successful read decoded them.
RowsAsRead(f) ==
    [ i \in 1..Len(f.rows) |-> IF FileUtf8Valid(f) THEN f.rows[i] ELSE Latin1Text(f.rows[i]) ]

\* A step in which a to_sql call returns.
WriteReturns == pc = "write" /\ pc' # "aborted"

(* -------------------------------- C1 ------------------------------------ *)

\* C1: when build_engine returns, it returns the engine of the first
\* candidate k whose probe succeeded: every candidate before k was tried
\* exactly once and has exactly one warning line, candidate k was tried
\* exactly once and has none, and no candidate after k was tried at all, at
\* the return and for the rest of the run.
C1_FirstWorkingDriver ==
    (pc = "return" \/ eng # None) =>
        /\ eng # None => eng = candidates[drv]
        /\ \A j \in Drivers :
            /\ j < drv => attempts[j] = 1 /\ Cardinality(WarnLines(j)) = 1
            /\ j = drv => attempts[j] = 1 /\ WarnLines(j) = {}
            /\ j > drv => attempts[j] = 0 /\ WarnLines(j) = {} /\ TryLines(j) = {}

\* The run ended normally on the second driver after the first one failed.
C1_Witness ==
    /\ pc = "done"
    /\ eng = candidates[2]
    /\ WarnLines(1) # {}

(* -------------------------------- C2 ------------------------------------ *)

C2_State ==
    exc.kind = "RuntimeError" =>
        /\ pc = "aborted"
        /\ eng = None
        /\ \A j \in Drivers : attempts[j] = 1 /\ Cardinality(WarnLines(j)) = 1
        /\ \A k \in WarnLines(Len(candidates)) : exc.msg = log[k].val
        /\ \A i \in SourceIds : Untouched(i)
        /\ counted = <<>>
        /\ ~DonePrinted

C2_Step ==
    /\ pc \in BuildPcs => tables' = tables
    /\ (pc = "loop" /\ drv > Len(candidates)) => (pc' = "aborted" /\ exc'.kind = "RuntimeError")

\* C2: when every candidate has failed, build_engine raises a RuntimeError
\* whose message is the error of the last candidate tried; main ends there,
\* with no existence check, read or write done, and no step of build_engine
\* changes a destination table.
C2_AllDriversFail == []C2_State /\ [][C2_Step]_vars

\* Both drivers failed with different errors, over a database that holds a
\* table from an earlier run.
C2_Witness ==
    /\ exc.kind = "RuntimeError"
    /\ \E a \in WarnLines(1), b \in WarnLines(2) : log[a].val # log[b].val
    /\ tables["brand"].exists

(* -------------------------------- C10 ----------------------------------- *)

Smoke_Failed == exc.msg \in {"smoke-test connect", "SELECT @@VERSION failed"}

C10_State ==
    /\ Smoke_Failed =>
        /\ pc = "aborted"
        /\ eng # None
        /\ \A i \in SourceIds : Untouched(i)
        /\ counted = <<>>
        /\ ~DonePrinted
    /\ (\E i \in SourceIds : ~Untouched(i)) => Connected

C10_Step ==
    /\ pc \in SmokePcs => tables' = tables
    /\ pc = "version_connect" => pc' \in {"version", "aborted"}
    /\ (pc = "version_exit" /\ pending # None) => pc' = "aborted"

C7_State ==
    exc.msg = "to_sql" =>
        /\ pc = "aborted"
        /\ writes[src] = 1
        /\ \A j \in SourceIds : j > src => Untouched(j)
        /\ counted = <<>>
        /\ conns = {}
        /\ LinesOf("OK", "rows", "brand") = {} /\ LinesOf("OK", "rows", "daily_spend") = {}
        /\ ~DonePrinted

C7_Step ==
    /\ pc = "write" =>
        /\ pc' # "aborted" => tables'[Sources[src]] = ReplaceTable(tables[Sources[src]], df)
        /\ \A j \in SourceIds : j # src => tables'[Sources[j]] = tables[Sources[j]]
    /\ pc = "aborted" => (pc' = "main" /\ tables' = tables)

\* C7: a to_sql call that raises ends the run.  The run goes on past a write
\* only with the table replaced by the snapshot; otherwise main ends with the
\* error, no later source is checked, read or written, no count query is
\* sent and DONE is not printed.  The failing call and the end of the run
\* leave the other table, replaced or not, as it is.
C7_WriteFailureIsFatal == []C7_State /\ [][C7_Step]_vars

\* The write of dbo.daily_spend raised after dbo.brand was replaced by two rows.
C7_Witness ==
    /\ exc.msg = "to_sql"
    /\ src = 2
    /\ writes[1] = 1
    /\ RowCount(tables["brand"]) = 2

(* -------------------------------- C8 ------------------------------------ *)

\* The connection each position of the run holds open.
HeldAt(p) ==
    CASE p \in {"probe", "probe_exit"}     -> {"probe"}
      [] p \in {"version", "version_exit"} -> {"version"}
      [] p = "count"                       -> {"verify"}
      [] OTHER                             -> {}

\* C8: a connection is open only inside the `with` block that opened it: the
\* probe, the smoke test and the sanity counts each hold exactly their own
\* connection, and everywhere else, in the except handler, between the
\* blocks, after a normal end and after a fatal error, none is open.  So no
\* two are ever open at once.
C8_ConnectionsScoped ==
    /\ conns = HeldAt(pc)
    /\ Cardinality(conns) <= 1
    /\ Terminated => conns = {}

\* SELECT @@VERSION raised inside its `with` block and the run ended: the
\* connection was released on the way out.
C8_Witness ==
    /\ pc = "aborted"
    /\ exc.msg = "SELECT @@VERSION failed"
    /\ conns = {}

(* -------------------------------- C9 ------------------------------------ *)

C9_State ==
    /\ \A i \in SourceIds : reads[i] \in { <<>>, <<"utf-8">>, <<"utf-8", "latin-1">> }
    /\ pc = "read_latin1" => (reads[src] = <<"utf-8">> /\ ~FileUtf8Valid(file))
    /\ pc \in {"lower", "write"} =>
        /\ reads[src] = IF FileUtf8Valid(file) THEN <<"utf-8">> ELSE <<"utf-8", "latin-1">>
        /\ Len(df.rows) = Len(file.rows)
    /\ exc.kind = "ParserError" =>
        /\ pc = "aborted"
        /\ writes[src] = 0
        /\ reads[src] = IF exc.msg = "read_csv" THEN <<"utf-8">> ELSE <<"utf-8", "latin-1">>

C9_Step ==
    /\ pc = "read" => pc' \in {"lower", "read_latin1", "aborted"}
    /\ pc = "read_latin1" => pc' \in {"lower", "aborted"}
    /\ WriteReturns => RowCount(tables'[Sources[src]]) = Len(file.rows)

\* C9: read_csv_any calls read_csv at most twice per file.  The Latin-1 call
\* is made once, and only after the first call failed to decode the file;
\* any other error of the first call, and any error of the Latin-1 call,
\* ends the run with no further read and no write.  A snapshot read under
\* either encoding has one row per data row of the file, and so has the
\* table written from it.
C9_ReadFallback == []C9_State /\ [][C9_Step]_vars

\* A run ended normally after dbo.brand was loaded through the fallback.
C9_Witness ==
    /\ pc = "done"
    /\ reads[1] = <<"utf-8", "latin-1">>
    /\ RowCount(tables["brand"]) = 2

(* -------------------------------- C4 ------------------------------------ *)

\* Source i is the one whose to_sql call has just returned: its file and the
\* table the call was made over are still at hand.
JustWritten(i) ==
    /\ writes[i] = 1
    /\ file # NoFile
    /\ \/ pc = "ensure" /\ src = i + 1
       \/ pc = "verify_connect" /\ src = i /\ i = Len(Sources)

C4_State ==
    \A i \in SourceIds :
        JustWritten(i) =>
            /\ tables[Sources[i]].exists
            /\ tables[Sources[i]].rows = RowsAsRead(file)
            /\ RowCount(tables[Sources[i]]) = Len(file.rows)

C4_Step == pc # "write" => tables' = tables

\* C4: when a to_sql call has returned, the table holds exactly the rows of
\* the CSV just read, in file order, whatever table (none, a shorter one, a
\* longer one, the same one) the call was made over; and no other step of
\* any run changes a table, so each table keeps the rows of the CSV of the
\* most recent load until the next one.
C4_ReplaceNotAppend == []C4_State /\ [][C4_Step]_vars

\* A two-row CSV was loaded over a table that held one row.
C4_Witness ==
    /\ JustWritten(1)
    /\ replaced.exists
    /\ replaced.count = 1
    /\ RowCount(tables["brand"]) = 2

(* -------------------------------- C5 ------------------------------------ *)

ColumnSet(tbl) == Range(tbl.columns)

LoadFailed == exc.kind = "ParserError" \/ exc.msg = "to_sql"

\* C3 as stated: a source whose file is missing is neither read nor written,
\* and a run in which a source is missing and no load of another source
\* fails loads every source that is present and ends with the DONE line.
C3_Original ==
    \A i \in SourceIds :
        Missing(i) =>
            /\ reads[i] = <<>>
            /\ writes[i] = 0
            /\ (Terminated /\ ~LoadFailed) =>
                /\ pc = "done"
                /\ DonePrinted
                /\ \A j \in SourceIds : Missing(j) \/ writes[j] = 1

(* -------------------------------- C6 ------------------------------------ *)

C6_Step == pc \in {"verify_connect", "count"} => pc' \in {"count", "finish"}

\* C6 as stated: no failure inside the verification step, the opening of
\* its connection included, ends the run; the step always goes on to DONE.
C6_Original == [][C6_Step]_vars

====
